---------------------------- MODULE Spec2Model ----------------------------
(***************************************************************************)
(* Verification model of collectlabs/whatsapp-webhook-monitor.             *)
(*                                                                         *)
(* Specifications over one set of variables (SpecAck and SpecCfgFair add   *)
(* the scheduling to Spec and SpecCfg; SpecSend runs the senders alone):   *)
(*   SpecNorm  the payload normalizer (lib/webhook-processor.ts) applied   *)
(*             to bounded webhook payloads;                                *)
(*   SpecGet   the webhook verification endpoint (GET /api/webhook);       *)
(*   Spec      the ingestion endpoint (POST /api/webhook) with its storage *)
(*             inserts and automatic replies, in its two handler variants; *)
(*   SpecCfg   the response-configuration cache (getResponseConfig).       *)
(*                                                                         *)
(* JavaScript values are modelled as follows.  A string is a TLA+ string;  *)
(* a string that the code parses is a sequence of one-character strings.   *)
(* An optional field is a record [present, val].  A message_body is a      *)
(* record [isNull, parts]: parts is the sequence of the pieces the         *)
(* template literal concatenates, and String.includes is decided on those  *)
(* pieces.  The accented "Botão clicado" of the source is written          *)
(* "Botao clicado".                                                        *)
(***************************************************************************)
EXTENDS Integers, Sequences, FiniteSets, TLC

VARIABLES
    nPayload,   \* SpecNorm: the payload handed to processWebhookPayload
    nNow,       \* SpecNorm: the value Date.now() returns during the call
    nResult,    \* SpecNorm: [state, events] of the call
    gRequest,   \* SpecGet: the query parameters hub.mode, hub.verify_token, hub.challenge
    gSecret,    \* SpecGet: process.env.WEBHOOK_VERIFY_TOKEN
    gResponse,  \* SpecGet: [state, status, body] of the response
    deployment, \* Spec: which snapshot of the handler and of the decision is deployed
    env,        \* Spec: process.env, fixed for the life of the process
    responseConfig, \* Spec: the row of the response_config table (or none)
    delivery,   \* Spec: the number of POST requests received so far
    postBody,   \* Spec: the body of the latest POST request
    pc,         \* Spec: where the handler of the latest request stands
    normalizer, \* Spec: what processWebhookPayload did for the latest request
    allEventsData, \* Spec: the events of the latest request
    inserts,    \* Spec: the state of the insert of each event of the latest request
    submitted,  \* Spec: the records handed to supabase insert, over all requests
    insertCalls, \* Spec: the calls of supabase insert, in order, as [delivery, index]
    httpPosts,  \* Spec: the POSTs made to the vendor API, in order, as [delivery, index]
    sendResults, \* Spec: what the calls of the sender resolved to
    stored,     \* Spec: the records whose insert succeeded, over all requests
    responses,  \* Spec: the responses returned, one per finished request
    tasks,      \* Spec: the fire-and-forget reply work still in flight
    sendLog,    \* Spec: the calls of sendWhatsAppMessage, in order
    cfgNow,     \* SpecCfg: the clock, in ticks of ten seconds
    configCache, \* SpecCfg: the module variable configCache
    cfgCallers, \* SpecCfg: where each call of getResponseConfig stands
    cfgReads,   \* SpecCfg: the reads of response_config issued so far
    cfgInvalidations, \* SpecCfg: the calls of invalidateConfigCache so far
    cfgCallsSince, \* SpecCfg: the calls of getResponseConfig since the last invalidation
    cfgLast,    \* SpecCfg: the outcome of the read that settled last
    cfgSnapshot, \* SpecCfg: the snapshot of getResponseConfig that is deployed
    cfgOvertaken, \* SpecCfg: the reads in flight when the cache was invalidated
    sEnv,       \* SpecSend: process.env as it is now
    sEnvAtStart, \* SpecSend: process.env as it was when the process started
    sCalls      \* SpecSend: the calls of the senders, in order

normVars == <<nPayload, nNow, nResult>>
getVars == <<gRequest, gSecret, gResponse>>
postVars ==
    << deployment, env, responseConfig, delivery, postBody, pc, normalizer, allEventsData,
       inserts, submitted, insertCalls, stored, responses, tasks, sendLog,
       httpPosts, sendResults >>
cfgVars == <<cfgNow, configCache, cfgCallers, cfgReads, cfgInvalidations, cfgCallsSince, cfgLast,
            cfgSnapshot, cfgOvertaken>>
sendVars == <<sEnv, sEnvAtStart, sCalls>>
vars == <<normVars, getVars, postVars, cfgVars, sendVars>>

\* Each specification runs one part of the program; the variables of the
\* other parts rest at these values.
NormIdle == nPayload = <<>> /\ nNow = 0 /\ nResult = <<>>
GetIdle == gRequest = <<>> /\ gSecret = <<>> /\ gResponse = <<>>
PostIdle ==
    /\ deployment = "" /\ env = <<>> /\ responseConfig = <<>> /\ delivery = 0
    /\ postBody = <<>> /\ pc = "" /\ normalizer = "" /\ allEventsData = <<>> /\ inserts = <<>>
    /\ submitted = {} /\ stored = {} /\ responses = <<>> /\ tasks = {} /\ sendLog = <<>>
    /\ insertCalls = <<>> /\ httpPosts = <<>> /\ sendResults = {}
CfgIdle ==
    /\ cfgNow = 0 /\ configCache = <<>> /\ cfgCallers = <<>> /\ cfgReads = 0
    /\ cfgInvalidations = 0 /\ cfgCallsSince = 0 /\ cfgLast = <<>> /\ cfgSnapshot = ""
    /\ cfgOvertaken = <<>>
SendIdle == sEnv = <<>> /\ sEnvAtStart = <<>> /\ sCalls = <<>>

-----------------------------------------------------------------------------
(* Bounds of the model.                                                    *)

\* Largest number of entries of a generated payload.
MaxEntries == 2
\* Largest number of changes of a generated payload, over all its entries.
MaxChanges == 2

-----------------------------------------------------------------------------
(* JavaScript helpers.                                                     *)

Some(v) == [present |-> TRUE, val |-> v]
None == [present |-> FALSE, val |-> ""]
NoChars == [present |-> FALSE, val |-> <<>>]

\* JavaScript truthiness of an optional string: undefined and "" are falsy.
Truthy(o) == o.present /\ o.val # ""
TruthyChars(o) == o.present /\ o.val # <<>>

\* The result of parseInt on a string that does not start with a digit.
NaN == -1

DigitValue(c) ==
    CASE c = "0" -> 0 [] c = "1" -> 1 [] c = "2" -> 2 [] c = "3" -> 3
      [] c = "4" -> 4 [] c = "5" -> 5 [] c = "6" -> 6 [] c = "7" -> 7
      [] c = "8" -> 8 [] c = "9" -> 9 [] OTHER -> NaN

IsDigit(c) == DigitValue(c) # NaN

RECURSIVE ParseDigits(_, _, _)
ParseDigits(chars, i, acc) ==
    IF i > Len(chars) \/ ~IsDigit(chars[i]) THEN acc
    ELSE ParseDigits(chars, i + 1, acc * 10 + DigitValue(chars[i]))

\* parseInt(s): the leading decimal digits of s, NaN when there are none
\* (parseInt(undefined) parses the string "undefined").
parseInt(o) ==
    IF ~o.present \/ o.val = <<>> \/ ~IsDigit(o.val[1]) THEN NaN
    ELSE ParseDigits(o.val, 1, 0)

\* `${n}` for a number n.
NumberToString(n) == IF n = NaN THEN "NaN" ELSE ToString(n)

NullBody == [isNull |-> TRUE, parts |-> <<>>]
Body(parts) == [isNull |-> FALSE, parts |-> parts]

\* event.message_body?.includes(s)
Includes(body, s) == ~body.isNull /\ \E i \in 1..Len(body.parts) : body.parts[i] = s

-----------------------------------------------------------------------------
(* The payload normalizer, lib/webhook-processor.ts.                       *)

createUniqueEventId(messageId, messageType, timestamp) ==
    messageId \o "_" \o messageType \o "_" \o NumberToString(timestamp)

\* The summary of a message: the type dispatch of extractMessageData.
\* Mutant of TextBody: an empty text body is stored as null.
TextBodyOrNull(c) == IF c.body = "" THEN NullBody ELSE Body(<<c.body>>)

\* messageBody = message.text.body
TextBody(c) == Body(<<c.body>>)

\* Mutant of LocationBody: the name is appended whether or not it is there.
LocationBodyAlwaysNamed(c) ==
    Body(<<"Location: ", c.latitude, ", ", c.longitude, " - ", c.name>>)

\* `Location: ${latitude}, ${longitude}`, and ` - ${name}` with a name.
LocationBody(c) ==
    Body(<<"Location: ", c.latitude, ", ", c.longitude>>
         \o (IF c.name # "" THEN <<" - ", c.name>> ELSE <<>>))

MessageBody(message) ==
    LET c == message.content IN
    IF message.type = "text" /\ c.tag = "text" THEN TextBody(c)
    ELSE IF message.type \in {"image", "video", "document"}
            /\ c.tag = message.type /\ c.caption # ""
        THEN Body(<<c.caption>>)
    ELSE IF message.type = "location" /\ c.tag = "location"
        THEN LocationBody(c)
    ELSE IF message.type = "interactive" /\ c.tag = "interactive"
        THEN IF c.itype = "button_reply" /\ c.reply = "button_reply"
                THEN Body(<<"Botao clicado", ": \"", c.title, "\" (ID: ", c.rid, ")">>)
             ELSE IF c.itype = "cta_url"
                THEN IF c.reply \in {"cta_url_reply", "cta_reply"}
                        THEN Body(<<"CTA URL clicado", ": \"", c.title,
                                    "\" (Payload: ", c.rid, ")">>)
                     ELSE Body(<<"CTA URL clicado", " (dados nao disponiveis)">>)
             ELSE IF c.itype = "list_reply" /\ c.reply = "list_reply"
                THEN Body(<<"Item selecionado", ": \"", c.title, "\" (ID: ", c.rid, ")">>)
             ELSE Body(<<"Interacao do tipo: ", c.itype>>)
    ELSE NullBody

extractMessageData(message, phoneNumberId) ==
    LET timestamp == parseInt(message.timestamp) IN
    [ message_id   |-> createUniqueEventId(message.id, message.type, timestamp),
      from_number  |-> message.from,
      to_number    |-> phoneNumberId,
      timestamp    |-> timestamp,
      message_type |-> message.type,
      message_body |-> MessageBody(message) ]

extractStatusData(status, phoneNumberId) ==
    LET timestamp == parseInt(status.timestamp) IN
    [ message_id   |-> createUniqueEventId(status.id, status.status, timestamp),
      from_number  |-> status.recipient_id,
      to_number    |-> phoneNumberId,
      timestamp    |-> timestamp,
      message_type |-> status.status,
      message_body |-> NullBody ]

\* item?.from || item?.recipient_id || item?.wa_id || 'unknown'
GenericFrom(item) ==
    IF Truthy(item.from) THEN item.from.val
    ELSE IF Truthy(item.recipient_id) THEN item.recipient_id.val
    ELSE IF Truthy(item.wa_id) THEN item.wa_id.val
    ELSE "unknown"

\* The event of element i (counted from 0) of the unrecognized array `field`.
GenericArrayEvent(field, i, item, phoneNumberId, now) ==
    LET timestamp == IF TruthyChars(item.timestamp) THEN parseInt(item.timestamp)
                     ELSE now \div 1000
        baseId == IF Truthy(item.id) THEN item.id.val
                  ELSE "unknown_" \o field \o "_" \o ToString(i) \o "_" \o ToString(now)
    IN [ message_id   |-> createUniqueEventId(baseId, field, timestamp),
         from_number  |-> GenericFrom(item),
         to_number    |-> phoneNumberId,
         timestamp    |-> timestamp,
         message_type |-> field,
         message_body |-> NullBody ]

\* The event of the unrecognized object-valued `field`.
GenericObjectEvent(field, item, phoneNumberId, now) ==
    LET timestamp == IF TruthyChars(item.timestamp) THEN parseInt(item.timestamp)
                     ELSE now \div 1000
        baseId == IF Truthy(item.id) THEN item.id.val
                  ELSE "unknown_" \o field \o "_" \o ToString(now)
    IN [ message_id   |-> createUniqueEventId(baseId, field, timestamp),
         from_number  |-> GenericFrom(item),
         to_number    |-> phoneNumberId,
         timestamp    |-> timestamp,
         message_type |-> field,
         message_body |-> NullBody ]

knownFields == {"messages", "statuses", "contacts", "metadata", "messaging_product"}

\* The events of one other field of a change value (a key that is neither
\* `messages` nor `statuses` nor `metadata`).
FieldEvents(f, phoneNumberId, now) ==
    IF f.name \in knownFields THEN <<>>
    ELSE IF f.kind = "array"
        THEN [i \in 1..Len(f.items) |->
                GenericArrayEvent(f.name, i - 1, f.items[i], phoneNumberId, now)]
    ELSE IF f.kind = "object"
        THEN <<GenericObjectEvent(f.name, f.items[1], phoneNumberId, now)>>
    ELSE <<>>

RECURSIVE FieldsEvents(_, _, _)
FieldsEvents(fields, phoneNumberId, now) ==
    IF fields = <<>> THEN <<>>
    ELSE FieldEvents(Head(fields), phoneNumberId, now)
         \o FieldsEvents(Tail(fields), phoneNumberId, now)

\* change.value.metadata.phone_number_id raises a TypeError when the value or
\* its metadata is missing.
ChangeThrows(change) == ~change.hasValue \/ ~change.value.hasMetadata

\* Mutant of ChangeEvents: only the messages of a change are processed, the
\* statuses and the unrecognized fields are ignored.
ChangeEventsMessagesOnly(change, now) ==
    IF change.value.messages.present
    THEN [i \in 1..Len(change.value.messages.val) |->
            extractMessageData(change.value.messages.val[i], change.value.phone_number_id)]
    ELSE <<>>

\* The events one change contributes: messages, then statuses, then the
\* unrecognized fields in key order.
ChangeEvents(change, now) ==
    LET value == change.value
        phoneNumberId == value.phone_number_id
    IN (IF value.messages.present
           THEN [i \in 1..Len(value.messages.val) |->
                   extractMessageData(value.messages.val[i], phoneNumberId)]
           ELSE <<>>)
       \o (IF value.statuses.present
           THEN [i \in 1..Len(value.statuses.val) |->
                   extractStatusData(value.statuses.val[i], phoneNumberId)]
           ELSE <<>>)
       \o FieldsEvents(value.fields, phoneNumberId, now)

\* Mutant of ChangesLoop: the events of a change are put before those of the
\* changes already processed.
RECURSIVE ChangesLoopPrepending(_, _, _)
ChangesLoopPrepending(changes, now, acc) ==
    IF changes = <<>> THEN [threw |-> FALSE, events |-> acc]
    ELSE IF ChangeThrows(Head(changes)) THEN [threw |-> TRUE, events |-> <<>>]
    ELSE ChangesLoopPrepending(Tail(changes), now, ChangeEvents(Head(changes), now) \o acc)

\* The loop over the changes of one entry: [threw, events].
RECURSIVE ChangesLoop(_, _, _)
ChangesLoop(changes, now, acc) ==
    IF changes = <<>> THEN [threw |-> FALSE, events |-> acc]
    ELSE IF ChangeThrows(Head(changes)) THEN [threw |-> TRUE, events |-> <<>>]
    ELSE ChangesLoop(Tail(changes), now, acc \o ChangeEvents(Head(changes), now))

\* The loop over the entries: iterating entry.changes raises a TypeError
\* when the entry has no changes array.
RECURSIVE EntriesLoop(_, _, _)
EntriesLoop(entries, now, acc) ==
    IF entries = <<>> THEN [threw |-> FALSE, events |-> acc]
    ELSE IF ~Head(entries).changes.present THEN [threw |-> TRUE, events |-> <<>>]
    ELSE LET r == ChangesLoop(Head(entries).changes.val, now, acc) IN
         IF r.threw THEN r ELSE EntriesLoop(Tail(entries), now, r.events)

\* processWebhookPayload(payload): iterating payload.entry raises a TypeError
\* when the payload has no entry array.
processWebhookPayload(payload, now) ==
    IF payload.entryKind # "array" THEN [threw |-> TRUE, events |-> <<>>]
    ELSE EntriesLoop(payload.entry, now, <<>>)

-----------------------------------------------------------------------------
(* The webhook payloads the model delivers.                                *)

\* A customer's number, the business line the deployment is configured for
\* (the literal of shouldSendAutoReply), and another business line.
Customer == "5511999999999"
BusinessLine == "823349844204985"
OtherLine == "109876543210000"

NoContent == [tag |-> "none"]
TextContent(b) == [tag |-> "text", body |-> b]
MediaContent(t, caption) == [tag |-> t, caption |-> caption]
LocationContent(lat, lng, name) ==
    [tag |-> "location", latitude |-> lat, longitude |-> lng, name |-> name]
InteractiveContent(itype, reply, title, rid) ==
    [tag |-> "interactive", itype |-> itype, reply |-> reply, title |-> title, rid |-> rid]

Message(id, from, ts, type, content) ==
    [id |-> id, from |-> from, timestamp |-> Some(ts), type |-> type, content |-> content]

Status(id, status, ts, recipient) ==
    [id |-> id, status |-> status, timestamp |-> Some(ts), recipient_id |-> recipient]

\* An element of an unrecognized array, or an unrecognized object.
Item(id, ts, from) ==
    [id |-> id, timestamp |-> ts, from |-> from, recipient_id |-> None, wa_id |-> None]

Field(name, kind, items) == [name |-> name, kind |-> kind, items |-> items]

Value(phoneNumberId, messages, statuses, fields) ==
    [ hasMetadata |-> TRUE, phone_number_id |-> phoneNumberId,
      messages |-> messages, statuses |-> statuses, fields |-> fields ]

NoList == [present |-> FALSE, val |-> <<>>]

T17 == <<"1", "7">>
T18 == <<"1", "8">>

MsgText == Message("wamid.A", Customer, T17, "text", TextContent("oi"))
MsgButton == Message("wamid.B", Customer, T18, "button", NoContent)
MsgQuickReply ==
    Message("wamid.C", Customer, T18, "interactive",
            InteractiveContent("button_reply", "button_reply", "Sim", "btn1"))
MsgImage == Message("wamid.D", "12345", T17, "image", MediaContent("image", "foto"))
MsgLocation ==
    Message("wamid.E", Customer, T18, "location", LocationContent("-23.5", "-46.6", "Loja"))

\* A text with an empty body, a text without its `text` object, and a
\* location without a name.
MsgTextEmpty == Message("wamid.H", Customer, T17, "text", TextContent(""))
MsgTextNoObject == Message("wamid.I", Customer, T18, "text", NoContent)
MsgLocationNoName ==
    Message("wamid.J", Customer, T17, "location", LocationContent("-23.5", "-46.6", ""))

StatusSent == Status("wamid.A", "sent", T17, Customer)
StatusDelivered == Status("wamid.A", "delivered", T17, Customer)
StatusRead == Status("wamid.A", "read", T18, Customer)
\* A status the vendor reports under the name of a message kind.
StatusText == Status("wamid.A", "text", T17, Customer)

ErrorItem == Item(None, NoChars, None)
ErrorItemWithId == Item(Some("err.1"), Some(T17), Some(Customer))

\* The change values of the generated payloads.
ValuePool ==
    { \* one text message to the business line
      Value(BusinessLine, Some(<<MsgText>>), NoList,
            <<Field("messaging_product", "scalar", <<>>), Field("contacts", "array", <<ErrorItem>>)>>),
      \* a message and the statuses of the same vendor id
      Value(BusinessLine, Some(<<MsgButton, MsgQuickReply>>),
            Some(<<StatusSent, StatusDelivered>>), <<>>),
      \* statuses only
      Value(BusinessLine, NoList, Some(<<StatusDelivered>>), <<>>),
      Value(BusinessLine, NoList, Some(<<StatusRead, StatusText>>), <<>>),
      \* messages to another business line, one from an implausible sender
      Value(OtherLine, Some(<<MsgText, MsgImage, MsgLocation>>), Some(<<>>), <<>>),
      \* unrecognized fields: an array, an object, a scalar and a null
      Value(BusinessLine, NoList, NoList,
            <<Field("errors", "array", <<ErrorItem, ErrorItemWithId>>),
              Field("pricing", "object", <<ErrorItemWithId>>),
              Field("note", "scalar", <<>>), Field("extra", "null", <<>>)>>),
      Value(BusinessLine, Some(<<>>), NoList, <<Field("errors", "array", <<ErrorItem>>)>>),
      \* texts without a body and a location without a name
      Value(BusinessLine, Some(<<MsgTextEmpty, MsgLocationNoName, MsgTextNoObject>>),
            NoList, <<>>),
      \* nothing but the metadata
      Value(BusinessLine, NoList, NoList, <<>>) }

Change(v) == [hasValue |-> TRUE, value |-> v, field |-> "messages"]
Entry(changes) == [id |-> "waba", changes |-> [present |-> TRUE, val |-> changes]]

\* A change value without metadata, a change without value, an entry without
\* changes: the malformed pieces.
ValueNoMetadata ==
    [ hasMetadata |-> FALSE, phone_number_id |-> "",
      messages |-> Some(<<MsgText>>), statuses |-> NoList, fields |-> <<>> ]
ChangeNoValue == [hasValue |-> FALSE, value |-> ValueNoMetadata, field |-> "messages"]
EntryNoChanges == [id |-> "waba", changes |-> NoList]

ChangePool == {Change(v) : v \in ValuePool}

\* The sequences of exactly e entries that hold at most c changes in all.
RECURSIVE EntrySeqs(_, _)
EntrySeqs(e, c) ==
    IF e = 0 THEN {<<>>}
    ELSE UNION { { <<Entry(cs)>> \o rest : cs \in [1..n -> ChangePool],
                                           rest \in EntrySeqs(e - 1, c - n) }
                 : n \in 0..c }

WellFormedEntries == UNION { EntrySeqs(e, MaxChanges) : e \in 0..MaxEntries }

MalformedEntries ==
    { <<EntryNoChanges>>,
      <<Entry(<<ChangeNoValue>>)>>,
      <<Entry(<<Change(ValueNoMetadata)>>)>>,
      <<Entry(<<Change(CHOOSE v \in ValuePool : v.statuses = Some(<<StatusDelivered>>)),
                Change(ValueNoMetadata)>>)>> }

Payload(object, entryKind, entry) ==
    [object |-> object, entryKind |-> entryKind, entry |-> entry]

WabaObject == Some("whatsapp_business_account")

WellFormedPayloads == { Payload(WabaObject, "array", es) : es \in WellFormedEntries }

\* Payloads without an entry array: the key is missing, or holds a string.
NoEntryPayloads == { Payload(WabaObject, k, <<>>) : k \in {"absent", "scalar"} }

NormPayloads ==
    WellFormedPayloads
    \cup { Payload(WabaObject, "array", es) : es \in MalformedEntries }
    \cup NoEntryPayloads

\* The readings of Date.now(), in milliseconds.
ClockReadings == {17250, 18900}

-----------------------------------------------------------------------------
(* SpecNorm: processWebhookPayload applied to a payload.                   *)

NormInit ==
    /\ nPayload \in NormPayloads
    /\ nNow \in ClockReadings
    /\ nResult = [state |-> "pending", events |-> <<>>]
    /\ GetIdle /\ PostIdle /\ CfgIdle /\ SendIdle

\* One call of processWebhookPayload; the clock is read once for the call.
NormalizeCall ==
    /\ nResult.state = "pending"
    /\ LET r == processWebhookPayload(nPayload, nNow) IN
       nResult' = [state |-> IF r.threw THEN "threw" ELSE "returned", events |-> r.events]
    /\ UNCHANGED <<nPayload, nNow, getVars, postVars, cfgVars, sendVars>>

NormNext == NormalizeCall

SpecNorm == NormInit /\ [][NormNext]_vars

-----------------------------------------------------------------------------
(* Claims about the normalizer, checked under SpecNorm.                    *)

\* The number of elements a change value holds outside the known fields:
\* every element of an array-valued field, one for an object-valued field.
FieldCount(f) ==
    IF f.name \in knownFields THEN 0
    ELSE IF f.kind = "array" THEN Len(f.items)
    ELSE IF f.kind = "object" THEN 1
    ELSE 0

RECURSIVE SumOver(_, _, _)
SumOver(seq, i, acc) ==
    IF i > Len(seq) THEN acc ELSE SumOver(seq, i + 1, acc + seq[i])

ValueCount(v) ==
    (IF v.messages.present THEN Len(v.messages.val) ELSE 0)
    + (IF v.statuses.present THEN Len(v.statuses.val) ELSE 0)
    + SumOver([i \in 1..Len(v.fields) |-> FieldCount(v.fields[i])], 1, 0)

EntryCount(e) ==
    SumOver([i \in 1..Len(e.changes.val) |-> ValueCount(e.changes.val[i].value)], 1, 0)

PayloadCount(payload) ==
    SumOver([i \in 1..Len(payload.entry) |-> EntryCount(payload.entry[i])], 1, 0)

\* C3: for every well-formed payload, the number of events processWebhookPayload
\* returns is the sum, over every change of every entry, of the number of
\* messages, of statuses and of elements of the unrecognized array- or
\* object-valued fields (an object counting as one).
C3_EventCount ==
    (nResult.state = "returned" /\ nPayload \in WellFormedPayloads)
        => Len(nResult.events) = PayloadCount(nPayload)

\* A payload of two changes whose events come from messages, statuses and
\* unrecognized fields has been normalized.
C3_Witness ==
    /\ nResult.state = "returned"
    /\ nPayload \in WellFormedPayloads
    /\ Len(nResult.events) >= 5
    /\ \E i \in 1..Len(nResult.events) : nResult.events[i].message_type = "errors"
    /\ \E i \in 1..Len(nResult.events) : nResult.events[i].message_type = "pricing"
    /\ \E i \in 1..Len(nResult.events) : nResult.events[i].message_type = "delivered"
    /\ \E i \in 1..Len(nResult.events) : nResult.events[i].message_type = "button"

DistinctIds(events) ==
    \A i, j \in 1..Len(events) : i # j => events[i].message_id # events[j].message_id

\* C4: no two events produced from one payload have the same message_id,
\* even when two source items carry the same vendor id.
C4_UniqueIdsInPayload ==
    nResult.state = "returned" => DistinctIds(nResult.events)

\* C11: processWebhookPayload never raises on a payload that has an entry
\* array, however malformed the entries, changes and values inside it are.
C11_NeverRaises ==
    nPayload.entryKind = "array" => nResult.state # "threw"

\* The messages of a payload, each with the phone_number_id of its change.
PayloadMessages(payload) ==
    { [message |-> v.messages.val[k], to |-> v.phone_number_id] :
        <<v, k>> \in
          { <<w, j>> \in
              { payload.entry[e].changes.val[c].value :
                  <<e, c>> \in { <<e2, c2>> \in (1..Len(payload.entry)) \X (1..MaxChanges) :
                                     c2 <= Len(payload.entry[e2].changes.val) } }
              \X (1..3) :
              w.messages.present /\ j <= Len(w.messages.val) } }

\* The events of the latest call that were produced from message m.
EventsOfMessage(m) ==
    { i \in 1..Len(nResult.events) :
        /\ nResult.events[i].message_id
             = createUniqueEventId(m.message.id, m.message.type, parseInt(m.message.timestamp))
        /\ nResult.events[i].message_type = m.message.type
        /\ nResult.events[i].from_number = m.message.from
        /\ nResult.events[i].to_number = m.to }

\* C23: every message of type text has an event whose message_body is the
\* body of the message's text object, character for character, the empty
\* body included; a text message that carries no text object has no body to
\* compare with, and its event has none either.
C23_TextSummaryIsBody ==
    (nPayload \in WellFormedPayloads /\ nResult.state = "returned") =>
        \A m \in PayloadMessages(nPayload) :
            m.message.type = "text"
            => \E i \in EventsOfMessage(m) :
                   nResult.events[i].message_body
                     = IF m.message.content.tag = "text"
                       THEN Body(<<m.message.content.body>>)
                       ELSE NullBody

C23_Witness ==
    /\ nPayload \in WellFormedPayloads
    /\ nResult.state = "returned"
    /\ \E m \in PayloadMessages(nPayload) :
         /\ m.message = MsgTextEmpty
         /\ \E i \in EventsOfMessage(m) : nResult.events[i].message_body = Body(<<"">>)
    /\ \E m \in PayloadMessages(nPayload) :
         /\ m.message = MsgText
         /\ \E i \in EventsOfMessage(m) : nResult.events[i].message_body = Body(<<"oi">>)

\* The location messages of the latest payload that carry a location object.
LocationMessages ==
    { m \in PayloadMessages(nPayload) :
        m.message.type = "location" /\ m.message.content.tag = "location" }

SourceLists(v) ==
    { [kind |-> "messages", name |-> "messages", items |-> v.messages.val] :
        x \in {1} \cap (IF v.messages.present THEN {1} ELSE {}) }
    \cup { [kind |-> "statuses", name |-> "statuses", items |-> v.statuses.val] :
        x \in {1} \cap (IF v.statuses.present THEN {1} ELSE {}) }
    \cup { [kind |-> "field", name |-> v.fields[i].name, items |-> v.fields[i].items] :
        i \in { j \in 1..Len(v.fields) : FieldCount(v.fields[j]) > 0 } }

\* Event ev is the event of element `item` of list l of a change for line `to`.
EventOfItem(l, item, ev, to) ==
    /\ ev.to_number = to
    /\ CASE l.kind = "messages" ->
              /\ ev.message_type = item.type
              /\ ev.from_number = item.from
              /\ ev.message_id
                   = createUniqueEventId(item.id, item.type, parseInt(item.timestamp))
         [] l.kind = "statuses" ->
              /\ ev.message_type = item.status
              /\ ev.from_number = item.recipient_id
              /\ ev.message_body = NullBody
              /\ ev.message_id
                   = createUniqueEventId(item.id, item.status, parseInt(item.timestamp))
         [] OTHER ->
              /\ ev.message_type = l.name
              /\ ev.message_body = NullBody
              /\ Truthy(item.from) => ev.from_number = item.from.val
              /\ Truthy(item.id)
                   => ev.message_id = createUniqueEventId(item.id.val, l.name, ev.timestamp)

\* The number of events of the changes that come before change c of entry e.
ChangeOffset(payload, e, c) ==
    SumOver([i \in 1..(e - 1) |-> EntryCount(payload.entry[i])], 1, 0)
    + SumOver([j \in 1..(c - 1) |-> ValueCount(payload.entry[e].changes.val[j].value)], 1, 0)

\* The elements of list l appear, in the list's order, among the events at
\* positions first..last.
ListInOrder(l, events, first, last, to) ==
    \E pos \in [1..Len(l.items) -> first..last] :
        /\ \A a, b \in 1..Len(l.items) : a < b => pos[a] < pos[b]
        /\ \A a \in 1..Len(l.items) : EventOfItem(l, l.items[a], events[pos[a]], to)

\* C25: a call that returns gives one event per source item and keeps the
\* source order: the events of change c of entry e occupy the positions after
\* those of every earlier entry and of every earlier change of the same
\* entry, and in that stretch the elements of each list (messages, statuses,
\* an unrecognized array) appear in the order of the list.
C25_SourceOrder ==
    nResult.state = "returned" =>
        /\ Len(nResult.events) = PayloadCount(nPayload)
        /\ \A e \in 1..Len(nPayload.entry) :
             \A c \in 1..Len(nPayload.entry[e].changes.val) :
                LET v == nPayload.entry[e].changes.val[c].value
                    first == ChangeOffset(nPayload, e, c) + 1
                    last == ChangeOffset(nPayload, e, c) + ValueCount(v)
                IN \A l \in SourceLists(v) :
                      ListInOrder(l, nResult.events, first, last, v.phone_number_id)

\* Two entries with different events, the first with a list of two.
C25_Witness ==
    /\ nResult.state = "returned"
    /\ Len(nPayload.entry) = 2
    /\ Len(nPayload.entry[1].changes.val) = 1
    /\ Len(nPayload.entry[2].changes.val) = 1
    /\ nPayload.entry[1].changes.val[1].value.messages = Some(<<MsgButton, MsgQuickReply>>)
    /\ nPayload.entry[2].changes.val[1].value.messages = Some(<<MsgText>>)
    /\ Len(nResult.events) = 5
    /\ nResult.events[2].message_type = "interactive"
    /\ nResult.events[5].message_type = "text"

-----------------------------------------------------------------------------
(* The verification endpoint, GET /api/webhook.                            *)

Whitespace == {" ", "\t", "\n"}

\* String.prototype.trim on a sequence of characters.
RECURSIVE TrimLeft(_)
TrimLeft(chars) ==
    IF chars # <<>> /\ Head(chars) \in Whitespace THEN TrimLeft(Tail(chars)) ELSE chars

RECURSIVE TrimRight(_)
TrimRight(chars) ==
    IF chars # <<>> /\ chars[Len(chars)] \in Whitespace
    THEN TrimRight(SubSeq(chars, 1, Len(chars) - 1)) ELSE chars

Trim(chars) == TrimRight(TrimLeft(chars))

Response(status, body) == [state |-> "sent", status |-> status, body |-> body]

\* Mutant of GET: the first snapshot of the handler, which compares the raw
\* token and answers 403 for everything else.
GETFirstSnapshot(request, verifyToken) ==
    IF /\ request.mode = Some("subscribe")
       /\ request.token.present /\ verifyToken.present
       /\ request.token.val = verifyToken.val
    THEN Response(200, request.challenge.val)
    ELSE Response(403, "Forbidden")

\* GET(request) with process.env.WEBHOOK_VERIFY_TOKEN = verifyToken.
GET(request, verifyToken) ==
    IF ~TruthyChars(verifyToken)
        THEN Response(500, "Server configuration error")
    ELSE IF ~Truthy(request.mode) \/ ~TruthyChars(request.token) \/ ~Truthy(request.challenge)
        THEN Response(400, "Missing required parameters")
    ELSE IF request.mode.val = "subscribe" /\ Trim(request.token.val) = Trim(verifyToken.val)
        THEN Response(200, request.challenge.val)
    ELSE Response(403, "Forbidden")

SecretChars == <<"s", "3", "c", "r">>

\* The values of hub.verify_token and of the configured secret: missing, empty,
\* the secret, the secret inside whitespace, another token, whitespace alone.
TokenPool ==
    { NoChars, Some(<<>>), Some(SecretChars), Some(<<" ">> \o SecretChars \o <<"\n">>),
      Some(<<"s", "3">>), Some(<<" ">>) }

ModePool == {None, Some(""), Some("subscribe"), Some("unsubscribe")}
ChallengePool == {None, Some(""), Some("1158201444"), Some("77")}

GetInit ==
    /\ gRequest \in [mode : ModePool, token : TokenPool, challenge : ChallengePool]
    /\ gSecret \in TokenPool
    /\ gResponse = [state |-> "pending", status |-> 0, body |-> ""]
    /\ NormIdle /\ PostIdle /\ CfgIdle /\ SendIdle

GetRequest ==
    /\ gResponse.state = "pending"
    /\ gResponse' = GET(gRequest, gSecret)
    /\ UNCHANGED <<gRequest, gSecret, normVars, postVars, cfgVars, sendVars>>

GetNext == GetRequest

SpecGet == GetInit /\ [][GetNext]_vars

\* The request carries hub.mode, hub.verify_token and hub.challenge.
ParamsPresent ==
    Truthy(gRequest.mode) /\ TruthyChars(gRequest.token) /\ Truthy(gRequest.challenge)

SecretConfigured == TruthyChars(gSecret)

\* The supplied token is the configured secret, whitespace around either ignored.
TokenMatches == Trim(gRequest.token.val) = Trim(gSecret.val)

FixedBodies == {"Server configuration error", "Missing required parameters", "Forbidden"}

-----------------------------------------------------------------------------
(* The auto-reply decision, lib/auto-reply-service.ts, in its two          *)
(* snapshots: the literal business line and the one read from process.env. *)

REPLY_MESSAGE_TYPES_STRICT == {"text", "button"}
REPLY_MESSAGE_TYPES ==
    {"text", "interactive", "button", "image", "audio", "video", "document", "location"}
STATUS_TYPES == {"sent", "delivered", "read", "failed", "deleted"}

\* !from_number || from_number === 'unknown' || from_number.length < 10
InvalidFrom(from_number) ==
    from_number = "" \/ from_number = "unknown" \/ Len(from_number) < 10

\* shouldSendAutoReply with the hardcoded businessPhoneId.
shouldSendAutoReplyHardcoded(messageData) ==
    IF messageData.message_type \notin REPLY_MESSAGE_TYPES_STRICT THEN FALSE
    ELSE IF InvalidFrom(messageData.from_number) THEN FALSE
    ELSE IF messageData.to_number # BusinessLine THEN FALSE
    ELSE TRUE

\* shouldSendAutoReply with businessPhoneId = process.env.WHATSAPP_PHONE_NUMBER_ID.
shouldSendAutoReplyEnv(messageData, businessPhoneId) ==
    IF messageData.message_type \in STATUS_TYPES THEN FALSE
    ELSE IF messageData.message_type = "raw_webhook" THEN FALSE
    ELSE IF messageData.message_type \notin REPLY_MESSAGE_TYPES THEN FALSE
    ELSE IF Truthy(businessPhoneId) /\ messageData.from_number = businessPhoneId.val THEN FALSE
    ELSE IF Truthy(businessPhoneId) /\ messageData.to_number # businessPhoneId.val THEN FALSE
    ELSE IF InvalidFrom(messageData.from_number) THEN FALSE
    ELSE TRUE

\* The decision of the deployed snapshot.
shouldSendAutoReply(messageData) ==
    IF deployment = "perEventHardcoded" THEN shouldSendAutoReplyHardcoded(messageData)
    ELSE shouldSendAutoReplyEnv(messageData, env.WHATSAPP_PHONE_NUMBER_ID)

\* Mutant of IsClientMessage: every event but the raw fallback is answered.
IsClientMessageAnyKind(event) == event.message_type # "raw_webhook"

\* The filter of processAutomaticResponses: a text, or an interactive whose
\* summary says a button was clicked, and not a status update.
IsClientMessage(event) ==
    LET isClientMessage ==
            \/ event.message_type = "text"
            \/ (event.message_type = "interactive"
                  /\ Includes(event.message_body, "Botao clicado"))
        isStatusUpdate == event.message_type \in {"sent", "delivered", "read", "failed"}
    IN isClientMessage /\ ~isStatusUpdate

\* payload.entry[0]?.changes[0]?.value?.metadata?.phone_number_id: undefined
\* when a link of the chain is missing (a TypeError when entry[0] has no
\* changes array, which the caller's try/catch turns into a return).
FirstPhoneNumberId(payload) ==
    IF payload.entry = <<>> THEN None
    ELSE LET changes == payload.entry[1].changes IN
         IF ~changes.present \/ changes.val = <<>> THEN None
         ELSE LET change == changes.val[1] IN
              IF ~change.hasValue \/ ~change.value.hasMetadata THEN None
              ELSE Some(change.value.phone_number_id)

-----------------------------------------------------------------------------
(* The outbound sender, lib/whatsapp-sender.ts: whether a call reaches the *)
(* fetch of the vendor API.                                                *)

\* sendWhatsAppMessage({ to, message }): the line is read from process.env.
sendWhatsAppMessageEnv(to, message) ==
    IF ~env.WHATSAPP_ACCESS_TOKEN THEN [fetched |-> FALSE, phoneNumberId |-> None]
    ELSE IF ~Truthy(env.WHATSAPP_PHONE_NUMBER_ID)
        THEN [fetched |-> FALSE, phoneNumberId |-> None]
    ELSE IF to = "" \/ message = ""
        THEN [fetched |-> FALSE, phoneNumberId |-> env.WHATSAPP_PHONE_NUMBER_ID]
    ELSE [fetched |-> TRUE, phoneNumberId |-> env.WHATSAPP_PHONE_NUMBER_ID]

\* sendWhatsAppMessage({ phoneNumberId, to, message }).
sendWhatsAppMessage(phoneNumberId, to, message) ==
    IF ~env.WHATSAPP_ACCESS_TOKEN THEN [fetched |-> FALSE, phoneNumberId |-> phoneNumberId]
    ELSE IF ~Truthy(phoneNumberId) \/ to = "" \/ message = ""
        THEN [fetched |-> FALSE, phoneNumberId |-> phoneNumberId]
    ELSE [fetched |-> TRUE, phoneNumberId |-> phoneNumberId]

\* One call of sendWhatsAppMessage on behalf of event `index` of a delivery.
SendAttempt(d, index, event, to, message, outcome) ==
    [ delivery |-> d, index |-> index, event |-> event, to |-> to, message |-> message,
      phoneNumberId |-> outcome.phoneNumberId, fetched |-> outcome.fetched ]

-----------------------------------------------------------------------------
(* Spec: the webhook endpoint, POST /api/webhook, with the reply work it   *)
(* starts.  Two snapshots of the handler are modelled: "fanout" answers    *)
(* the client messages of a request in one task started after the inserts  *)
(* settled (processAutomaticResponses); "perEvent" starts processAutoReply  *)
(* for each text or button event whose insert succeeded.                   *)

\* The number of POST requests of a behaviour.
MaxDeliveries == 2

Deployments == {"fanout", "perEventHardcoded", "perEventEnv"}

\* process.env: the business line may be unset, and so may the access token
\* and the storage credentials (SUPABASE_URL, SUPABASE_SERVICE_ROLE_KEY).
Environments ==
    [ WHATSAPP_PHONE_NUMBER_ID : {None, Some(BusinessLine)},
      WHATSAPP_ACCESS_TOKEN : BOOLEAN,
      SUPABASE : BOOLEAN ]

\* A row of the response_config table, or none (also the null result of
\* getResponseConfig).
NullConfig == [isNull |-> TRUE, enabled |-> FALSE, default_message |-> ""]
ResponseConfig(enabled, message) ==
    [isNull |-> FALSE, enabled |-> enabled, default_message |-> message]
\* The table holds no row, an enabled row, or a disabled row.
ConfigPool == {NullConfig, ResponseConfig(TRUE, "Hello"), ResponseConfig(FALSE, "Hello")}

\* Mutant of getResponseConfig: the read does not filter on `enabled`.
getResponseConfigAnyRow(row) == row

\* What getResponseConfig() resolves to: the read selects with
\* .eq('enabled', true), so a disabled row is not found (PGRST116) and the
\* result is null, as it is without a row.
getResponseConfig(row) == IF row.isNull \/ ~row.enabled THEN NullConfig ELSE row

\* `const responseConfig = await getResponseConfig()` of the reply work.
ObtainedConfig == getResponseConfig(responseConfig)

MsgTextShort == Message("wamid.F", "12345", T17, "text", TextContent("oi"))
\* A text message of a second customer.
MsgTextSecond == Message("wamid.G", "5511888888888", T18, "text", TextContent("ola"))

OneChange(v) == <<Entry(<<Change(v)>>)>>

\* The entry arrays of the delivered payloads.
HandlerEntries ==
    { \* one text message to the business line, and one to another line
      OneChange(Value(BusinessLine, Some(<<MsgText>>), NoList, <<>>)),
      OneChange(Value(OtherLine, Some(<<MsgText>>), NoList, <<>>)),
      \* the text messages of two customers in one request
      OneChange(Value(BusinessLine, Some(<<MsgText, MsgTextSecond>>), NoList, <<>>)),
      \* two entries of one request, each for another business line
      <<Entry(<<Change(Value(BusinessLine, Some(<<MsgText>>), NoList, <<>>))>>),
        Entry(<<Change(Value(OtherLine, Some(<<MsgTextSecond>>), NoList, <<>>))>>)>>,
      \* a delivered status alone; a status named like a message kind
      OneChange(Value(BusinessLine, NoList, Some(<<StatusDelivered>>), <<>>)),
      OneChange(Value(BusinessLine, NoList, Some(<<StatusText>>), <<>>)),
      \* a text and the sent status of the same vendor id
      OneChange(Value(BusinessLine, Some(<<MsgText>>), Some(<<StatusSent>>), <<>>)),
      \* the same read status in two changes
      <<Entry(<<Change(Value(BusinessLine, NoList, Some(<<StatusRead>>), <<>>)),
                Change(Value(BusinessLine, NoList, Some(<<StatusRead>>), <<>>))>>)>>,
      \* a clicked quick-reply button and an image from an implausible sender
      OneChange(Value(BusinessLine, Some(<<MsgQuickReply, MsgImage>>), NoList, <<>>)),
      \* a button message; a text from an implausible sender
      OneChange(Value(BusinessLine, Some(<<MsgButton>>), NoList, <<>>)),
      OneChange(Value(BusinessLine, Some(<<MsgTextShort>>), NoList, <<>>)),
      \* an unrecognized field
      OneChange(Value(BusinessLine, NoList, NoList,
                      <<Field("errors", "array", <<ErrorItem>>)>>)),
      \* an entry without changes before the entry of a text message
      <<Entry(<<>>), Entry(<<Change(Value(BusinessLine, Some(<<MsgText>>), NoList, <<>>))>>)>>,
      \* no event at all
      OneChange(Value(BusinessLine, NoList, NoList, <<>>)),
      <<>>,
      \* malformed pieces
      <<EntryNoChanges>>,
      <<Entry(<<ChangeNoValue>>)>>,
      <<Entry(<<Change(ValueNoMetadata)>>)>> }

\* What request.json() gives: a rejection, null, or an object.
InvalidJson == [kind |-> "invalidJson", payload |-> Payload(None, "absent", <<>>)]
JsonNull == [kind |-> "null", payload |-> Payload(None, "absent", <<>>)]
JsonObject(payload) == [kind |-> "object", payload |-> payload]

HandlerBodies ==
    {InvalidJson, JsonNull}
    \cup { JsonObject(Payload(WabaObject, "array", es)) : es \in HandlerEntries }
    \cup { JsonObject(p) : p \in NoEntryPayloads }
    \cup { JsonObject(Payload(o, "array", <<>>)) : o \in {None, Some(""), Some("page")} }
    \cup { JsonObject(Payload(None, "absent", <<>>)) }

\* Date.now() during request d: the clock advances between requests.
ClockAt(d) == 17250 + (d - 1) * 1650

\* Math.random().toString(36).substring(7)
RandomSuffixes == {"k3x9a", "p07qz"}

\* Mutant of ValidPayload: only the top-level object is checked.
ValidPayloadObjectOnly(payload) == Truthy(payload.object)

\* The shape validation: !(!body.object || !body.entry || !Array.isArray(body.entry)).
ValidPayload(payload) == Truthy(payload.object) /\ payload.entryKind = "array"

\* Building payloadDetails raises a TypeError when body.entry is no array
\* (body.entry.map), an entry has no changes array (entry.changes.map) or a
\* change has no value (Object.keys).
PayloadDetailsThrows(payload) ==
    \/ payload.entryKind # "array"
    \/ \E e \in 1..Len(payload.entry) :
          \/ ~payload.entry[e].changes.present
          \/ \E c \in 1..Len(payload.entry[e].changes.val) :
                 ~payload.entry[e].changes.val[c].hasValue

\* Mutant of OnError: the catch block lets the failure surface.
OnErrorSurfaces == Response(500, "Internal Server Error")

\* The catch block of POST.
OnError == Response(200, "OK")

Record(d, index, message_id) == [delivery |-> d, index |-> index, message_id |-> message_id]

\* One call of supabase.from('whatsapp_messages').insert for event `index`
\* of request d (index 0 is the raw fallback record).
InsertCall(d, index) == [delivery |-> d, index |-> index]

\* Mutant of OnInsertError: a failed insert is issued once more.
OnInsertErrorRetry(calls, d, i) ==
    IF Cardinality({k \in 1..Len(calls) : calls[k] = InsertCall(d, i)}) < 2
    THEN [status |-> "pending", calls |-> Append(calls, InsertCall(d, i))]
    ELSE [status |-> "failed", calls |-> calls]

\* `if (result.error) throw result.error`: the promise of the event rejects,
\* and no further insert is issued.
OnInsertError(calls, d, i) == [status |-> "failed", calls |-> calls]

\* The raw fallback record of a request without events.
RawRecordId(now, random) == "raw_" \o ToString(now) \o "_" \o random

\* Reply work in flight: the closure of one processAutoReply call (index is
\* the event's position) or of one processAutomaticResponses call (index 0),
\* waiting for the configuration ("config") or for the vendor API ("fetch").
Task(d, index, stage, payload, evs) ==
    [delivery |-> d, index |-> index, stage |-> stage, payload |-> payload, events |-> evs]

PostInit ==
    /\ deployment \in Deployments
    /\ env \in Environments
    /\ responseConfig \in ConfigPool
    /\ postBody \in HandlerBodies
    /\ delivery = 0
    /\ pc = "idle"
    /\ normalizer = "notCalled"
    /\ allEventsData = <<>>
    /\ inserts = <<>>
    /\ submitted = {}
    /\ insertCalls = <<>>
    /\ httpPosts = <<>>
    /\ sendResults = {}
    /\ stored = {}
    /\ responses = <<>>
    /\ tasks = {}
    /\ sendLog = <<>>
    /\ NormIdle /\ GetIdle /\ CfgIdle /\ SendIdle

\* The handler returns `response` without having handed anything to storage.
Finish(response, called) ==
    /\ responses' = Append(responses, response)
    /\ normalizer' = called
    /\ pc' = "idle"
    /\ allEventsData' = <<>>
    /\ inserts' = <<>>
    /\ UNCHANGED <<submitted, insertCalls, stored>>

\* A POST request arrives (the vendor delivers the payload, and may deliver
\* the identical payload again); the handler runs up to its first await on
\* storage: parse, validate, normalize, and hand every event to insert.
Receive ==
    /\ pc = "idle"
    /\ delivery < MaxDeliveries
    /\ delivery' = delivery + 1
    /\ LET d == delivery + 1
           now == ClockAt(d)
           payload == postBody.payload
       IN IF postBody.kind # "object" THEN Finish(OnError, "notCalled")
          ELSE IF ~ValidPayload(payload)
              THEN Finish(Response(400, "Invalid payload"), "notCalled")
          ELSE IF payload.object.val # "whatsapp_business_account"
              THEN Finish(Response(200, "OK"), "notCalled")
          ELSE IF PayloadDetailsThrows(payload) THEN Finish(OnError, "notCalled")
          ELSE LET r == processWebhookPayload(payload, now) IN
               IF r.threw THEN Finish(OnError, "threw")
               ELSE IF ~env.SUPABASE THEN Finish(OnError, "returned")
               ELSE IF r.events = <<>>
                   THEN /\ \E random \in RandomSuffixes :
                              submitted' = submitted \cup {Record(d, 0, RawRecordId(now, random))}
                        /\ insertCalls' = Append(insertCalls, InsertCall(d, 0))
                        /\ pc' = "rawInsert"
                        /\ normalizer' = "returned"
                        /\ allEventsData' = <<>>
                        /\ inserts' = <<>>
                        /\ UNCHANGED <<stored, responses>>
               ELSE /\ submitted' = submitted \cup
                          { Record(d, i, r.events[i].message_id) : i \in 1..Len(r.events) }
                    /\ insertCalls' = insertCalls \o [i \in 1..Len(r.events) |-> InsertCall(d, i)]
                    /\ pc' = "inserting"
                    /\ normalizer' = "returned"
                    /\ allEventsData' = r.events
                    /\ inserts' = [i \in 1..Len(r.events) |-> "pending"]
                    /\ UNCHANGED <<stored, responses>>
    /\ UNCHANGED << deployment, env, responseConfig, postBody, tasks, sendLog, httpPosts, sendResults,
                    normVars, getVars, cfgVars, sendVars >>

\* The insert of the raw fallback record settles, with or without an error;
\* the handler answers.
RawInsertSettles ==
    /\ pc = "rawInsert"
    /\ \E ok \in BOOLEAN :
         stored' = IF ok THEN stored \cup {r \in submitted : r.delivery = delivery /\ r.index = 0}
                   ELSE stored
    /\ responses' = Append(responses, Response(200, "OK"))
    /\ pc' = "idle"
    /\ UNCHANGED << deployment, env, responseConfig, delivery, postBody, normalizer,
                    allEventsData, inserts, submitted, insertCalls, tasks, sendLog, httpPosts, sendResults,
                    normVars, getVars, cfgVars, sendVars >>

\* Mutant of StartsAutoReply: the reply work starts whether or not the
\* insert succeeded.
StartsAutoReplyWhateverInsert(ok, eventData) ==
    /\ deployment # "fanout"
    /\ eventData.message_type \in {"text", "button"}
    /\ shouldSendAutoReply(eventData)

\* The perEvent handler reaches its call of processAutoReply: the insert gave
\* no error (an error is thrown before), the event is a text or a button, and
\* processAutoReply gets past its own test.
StartsAutoReply(ok, eventData) ==
    /\ ok
    /\ deployment # "fanout"
    /\ eventData.message_type \in {"text", "button"}
    /\ shouldSendAutoReply(eventData)

\* The insert of one event settles.  With an error the promise rejects; in
\* the perEvent handler a stored text or button event goes to
\* processAutoReply, which decides before its first await.
InsertSettles ==
    /\ pc = "inserting"
    /\ \E i \in 1..Len(inserts), ok \in BOOLEAN :
         LET eventData == allEventsData[i] IN
         /\ inserts[i] = "pending"
         /\ inserts' = [inserts EXCEPT ![i] =
                            IF ok THEN "ok" ELSE OnInsertError(insertCalls, delivery, i).status]
         /\ insertCalls' = IF ok THEN insertCalls
                           ELSE OnInsertError(insertCalls, delivery, i).calls
         /\ stored' = IF ok THEN stored \cup {Record(delivery, i, eventData.message_id)}
                      ELSE stored
         /\ tasks' = IF StartsAutoReply(ok, eventData)
                     THEN tasks \cup {Task(delivery, i, "config", postBody.payload, <<eventData>>)}
                     ELSE tasks
    /\ UNCHANGED << deployment, env, responseConfig, delivery, postBody, pc, normalizer,
                    allEventsData, submitted, responses, sendLog, httpPosts, sendResults, normVars, getVars, cfgVars, sendVars >>

\* Mutant of Respond: the handler awaits the reply work its inserts started
\* before it answers.
RespondAfterReplies ==
    /\ pc = "inserting"
    /\ \A i \in 1..Len(inserts) : inserts[i] # "pending"
    /\ \A t \in tasks : t.delivery # delivery
    /\ tasks' = tasks
    /\ responses' = Append(responses, Response(200, "OK"))
    /\ pc' = "idle"
    /\ UNCHANGED << deployment, env, responseConfig, delivery, postBody, normalizer,
                    allEventsData, inserts, submitted, insertCalls, stored, sendLog, httpPosts, sendResults, normVars, getVars, cfgVars, sendVars >>

\* Promise.allSettled resolves: the fanout handler starts
\* processAutomaticResponses without awaiting it; the handler answers 200.
Respond ==
    /\ pc = "inserting"
    /\ \A i \in 1..Len(inserts) : inserts[i] # "pending"
    /\ tasks' = IF deployment = "fanout"
                THEN tasks \cup {Task(delivery, 0, "config", postBody.payload, allEventsData)}
                ELSE tasks
    /\ responses' = Append(responses, Response(200, "OK"))
    /\ pc' = "idle"
    /\ UNCHANGED << deployment, env, responseConfig, delivery, postBody, normalizer,
                    allEventsData, inserts, submitted, insertCalls, stored, sendLog, httpPosts, sendResults, normVars, getVars, cfgVars, sendVars >>

\* What the vendor API, or the network, does to one POST: a 2xx with a
\* message id, a non-2xx with a JSON body, a 2xx whose body holds `error`, a
\* body JSON.parse rejects, or a fetch that rejects.
FetchOutcomes == {"ok", "httpError", "vendorError", "unparsable", "networkError"}

\* One POST to https://graph.facebook.com/<version>/<phoneNumberId>/messages,
\* made by the call of the sender for event `index` of request d.
HttpPost(d, index) == [delivery |-> d, index |-> index]

HttpPostsOf(d, index) ==
    Cardinality({k \in 1..Len(httpPosts) : httpPosts[k] = HttpPost(d, index)})

\* The value the call of the sender for event `index` of request d resolved
\* to; outcome "notSent" is a call that returned before its fetch.
SendResult(d, index, success, outcome) ==
    [delivery |-> d, index |-> index, success |-> success, outcome |-> outcome]

\* Mutant of AfterFetch: a POST that did not succeed is made once more.
AfterFetchRetry(outcome, posted) ==
    [success |-> outcome = "ok", again |-> outcome # "ok" /\ posted < 2]

\* The sender after `await fetch(...)`: success with a parsed 2xx body
\* without `error`; every other outcome, the rejected fetch included,
\* returns success = false; no path leads back to fetch.
AfterFetch(outcome, posted) == [success |-> outcome = "ok", again |-> FALSE]

\* Mutant of OnSendFailure: a failed send ends the reply work of its request.
OnSendFailureAborts(ts, t) == {u \in ts : u.delivery # t.delivery}

\* The try/catch around each send of processAutomaticResponses, and the
\* .catch on each processAutoReply: a failed send is logged and ends its own
\* task only.
OnSendFailure(ts, t) == ts \ {t}

\* The results of the calls among `sends` that returned before their fetch,
\* and the POSTs of the others.
NotSentResults(sends) ==
    { SendResult(sends[k].delivery, sends[k].index, FALSE, "notSent") :
        k \in {j \in 1..Len(sends) : ~sends[j].fetched} }

RECURSIVE PostsOf(_, _)
PostsOf(sends, k) ==
    IF k > Len(sends) THEN <<>>
    ELSE (IF sends[k].fetched THEN <<HttpPost(sends[k].delivery, sends[k].index)>> ELSE <<>>)
         \o PostsOf(sends, k + 1)

\* processAutoReply after `await getResponseConfig()`: return without a
\* configuration or with a disabled one, else call the sender.
ConfigResolvesPerEvent ==
    /\ deployment # "fanout"
    /\ \E t \in tasks :
         /\ t.stage = "config"
         /\ IF ObtainedConfig.isNull \/ ~ObtainedConfig.enabled
            THEN /\ tasks' = tasks \ {t}
                 /\ UNCHANGED <<sendLog, httpPosts, sendResults>>
            ELSE LET messageData == t.events[1]
                     outcome == sendWhatsAppMessageEnv(messageData.from_number,
                                                       ObtainedConfig.default_message)
                     sends == <<SendAttempt(t.delivery, t.index, messageData,
                                            messageData.from_number,
                                            ObtainedConfig.default_message, outcome)>>
                 IN /\ sendLog' = sendLog \o sends
                    /\ httpPosts' = httpPosts \o PostsOf(sends, 1)
                    /\ sendResults' = sendResults \cup NotSentResults(sends)
                    /\ tasks' = (tasks \ {t}) \cup
                                (IF outcome.fetched
                                 THEN {Task(t.delivery, t.index, "fetch", <<>>, <<>>)} ELSE {})
    /\ UNCHANGED << deployment, env, responseConfig, delivery, postBody, pc, normalizer,
                    allEventsData, inserts, submitted, insertCalls, stored, responses,
                    normVars, getVars, cfgVars, sendVars >>

\* The calls of the sender processAutomaticResponses makes, in event order.
RECURSIVE FanoutSends(_, _, _, _)
FanoutSends(d, evs, i, phoneNumberId) ==
    IF i > Len(evs) THEN <<>>
    ELSE (IF IsClientMessage(evs[i])
          THEN <<SendAttempt(d, i, evs[i], evs[i].from_number, ObtainedConfig.default_message,
                             sendWhatsAppMessage(phoneNumberId, evs[i].from_number,
                                                 ObtainedConfig.default_message))>>
          ELSE <<>>)
         \o FanoutSends(d, evs, i + 1, phoneNumberId)

\* processAutomaticResponses after `await getResponseConfig()`: return
\* without a configuration or without the payload's phone_number_id, else
\* call the sender for every client message; every call runs up to its
\* fetch before any of them settles.
ConfigResolvesFanout ==
    /\ deployment = "fanout"
    /\ \E t \in tasks :
         /\ t.stage = "config"
         /\ LET phoneNumberId == FirstPhoneNumberId(t.payload)
                sends == IF ObtainedConfig.isNull \/ ~Truthy(phoneNumberId) THEN <<>>
                         ELSE FanoutSends(t.delivery, t.events, 1, phoneNumberId)
            IN /\ sendLog' = sendLog \o sends
               /\ httpPosts' = httpPosts \o PostsOf(sends, 1)
               /\ sendResults' = sendResults \cup NotSentResults(sends)
               /\ tasks' = (tasks \ {t}) \cup
                           { Task(t.delivery, sends[k].index, "fetch", <<>>, <<>>) :
                               k \in {j \in 1..Len(sends) : sends[j].fetched} }
    /\ UNCHANGED << deployment, env, responseConfig, delivery, postBody, pc, normalizer,
                    allEventsData, inserts, submitted, insertCalls, stored, responses,
                    normVars, getVars, cfgVars, sendVars >>

\* The vendor API answers the POST of one send, or the fetch fails: the
\* call of the sender resolves, and its caller logs the result.
FetchSettles ==
    /\ \E t \in tasks, outcome \in FetchOutcomes :
         /\ t.stage = "fetch"
         /\ LET after == AfterFetch(outcome, HttpPostsOf(t.delivery, t.index))
            IN IF after.again
               THEN /\ httpPosts' = Append(httpPosts, HttpPost(t.delivery, t.index))
                    /\ UNCHANGED <<tasks, sendResults>>
               ELSE /\ sendResults' = sendResults \cup
                          {SendResult(t.delivery, t.index, after.success, outcome)}
                    /\ tasks' = IF after.success THEN tasks \ {t} ELSE OnSendFailure(tasks, t)
                    /\ UNCHANGED httpPosts
    /\ UNCHANGED << deployment, env, responseConfig, delivery, postBody, pc, normalizer,
                    allEventsData, inserts, submitted, insertCalls, stored, responses, sendLog,
                    normVars, getVars, cfgVars, sendVars >>

Next ==
    \/ Receive
    \/ RawInsertSettles
    \/ InsertSettles
    \/ Respond
    \/ ConfigResolvesPerEvent
    \/ ConfigResolvesFanout
    \/ FetchSettles

Spec == PostInit /\ [][Next]_vars

-----------------------------------------------------------------------------
(* Claims about the webhook endpoint, checked under Spec.                  *)

\* The parsed body has no (non-empty) top-level `object`, or no `entry` array.
LacksObject == ~Truthy(postBody.payload.object)
LacksEntryArray == postBody.payload.entryKind # "array"

\* C1: every response of POST /api/webhook is 200 "OK", whatever happened
\* inside (the body could not be parsed, the normalizer raised, the storage
\* client was unavailable, inserts failed, reply work is still running),
\* except the 400 given to a parsed body that lacks `object` or an `entry`
\* array; no other status is ever returned.
C1_AlwaysAcknowledged ==
    \A k \in 1..Len(responses) :
        \/ responses[k] = Response(200, "OK")
        \/ /\ responses[k].status = 400
           /\ postBody.kind = "object"
           /\ (LacksObject \/ LacksEntryArray)

\* A request one of whose inserts failed was answered 200 while its reply
\* work had not finished.
C1_Witness ==
    /\ pc = "idle"
    /\ Len(responses) = 1
    /\ responses[1] = Response(200, "OK")
    /\ \E i \in 1..Len(inserts) : inserts[i] = "failed"
    /\ tasks # {}

\* C5: no two records handed to storage, over all the deliveries so far,
\* carry the same message_id.
C5_UniqueSubmittedIds ==
    \A r1, r2 \in submitted : r1.message_id = r2.message_id => r1 = r2

DeliveryStatusKinds == {"sent", "delivered", "read", "failed"}

\* C6: no call of the sender is ever made on behalf of an event whose kind
\* is sent, delivered, read or failed; a request is handed to storage event
\* by event, so a request of status entries alone stores them and sends
\* nothing.
C6_NoReplyToStatus ==
    /\ \A k \in 1..Len(sendLog) : sendLog[k].event.message_type \notin DeliveryStatusKinds
    /\ \A i \in 1..Len(allEventsData) :
           Record(delivery, i, allEventsData[i].message_id) \in submitted

\* A request holding one delivered status was stored and answered, the reply
\* work of the fanout handler ran to its end with a configuration present,
\* and no send was made.
C6_Witness ==
    /\ deployment = "fanout"
    /\ ~responseConfig.isNull
    /\ pc = "idle"
    /\ Len(responses) = 1
    /\ tasks = {}
    /\ Len(allEventsData) = 1
    /\ allEventsData[1].message_type = "delivered"
    /\ stored # {}
    /\ sendLog = <<>>

\* C7: no request to the vendor API is ever made on behalf of an event
\* addressed to a line other than the deployment's business line, whether or
\* not WHATSAPP_PHONE_NUMBER_ID is set.
C7_NoReplyToOtherLine ==
    \A k \in 1..Len(sendLog) :
        sendLog[k].fetched => sendLog[k].event.to_number = BusinessLine

\* The decision rules of the claim.  The snapshots differ in the kinds they
\* allow beyond text, so an event passes for certain when it is a text from a
\* plausible sender to the business line, and fails for certain when it is
\* a delivery status, or from an implausible sender, or to another line.
PassesRules(event) ==
    /\ event.message_type = "text"
    /\ ~InvalidFrom(event.from_number)
    /\ event.to_number = BusinessLine

FailsRules(event) ==
    \/ event.message_type \in DeliveryStatusKinds
    \/ InvalidFrom(event.from_number)
    \/ event.to_number # BusinessLine

SendsFor(d, i) == {k \in 1..Len(sendLog) : sendLog[k].delivery = d /\ sendLog[k].index = i}

\* C8: once a delivery is finished (answered, every insert succeeded, no
\* reply work left) with auto-reply enabled, every event that passes the
\* decision rules has exactly one send, to its sender with the configured
\* message, and exactly one stored record, and no event that fails them has
\* a send.
C8_OneReplyPerPassingEvent ==
    ( /\ pc = "idle" /\ tasks = {}
      /\ ~responseConfig.isNull /\ responseConfig.enabled
      /\ allEventsData # <<>>
      /\ \A i \in 1..Len(inserts) : inserts[i] = "ok" )
    => \A i \in 1..Len(allEventsData) :
          LET event == allEventsData[i]
              sends == SendsFor(delivery, i)
          IN IF PassesRules(event)
             THEN /\ Cardinality(sends) = 1
                  /\ \A k \in sends : /\ sendLog[k].to = event.from_number
                                      /\ sendLog[k].message = responseConfig.default_message
                  /\ Cardinality({r \in stored : r.delivery = delivery /\ r.index = i}) = 1
             ELSE FailsRules(event) => sends = {}

\* What the normalizer does when it is given the delivered payload.
NormalizerAlone == processWebhookPayload(postBody.payload, ClockAt(delivery))

\* A request with a parsed object body that has no entry array was answered.
NoEntryArrayAnswered ==
    /\ delivery >= 1
    /\ Len(responses) = delivery
    /\ postBody.kind = "object"
    /\ LacksEntryArray

InsertCallsOf(d, i) ==
    Cardinality({k \in 1..Len(insertCalls) : insertCalls[k] = InsertCall(d, i)})

\* C13: within one request every normalized event is handed to the storage
\* insert exactly once, whatever the outcome of its own insert and of the
\* inserts of the other events of the request: no insert is issued a second
\* time and none is left out.
C13_InsertedExactlyOnce ==
    /\ \A i \in 1..Len(allEventsData) : InsertCallsOf(delivery, i) = 1
    /\ \A k \in 1..Len(insertCalls) :
         InsertCallsOf(insertCalls[k].delivery, insertCalls[k].index) = 1

C13_Witness ==
    /\ pc = "idle"
    /\ Len(allEventsData) = 2
    /\ \E i, j \in 1..2 : inserts[i] = "failed" /\ inserts[j] = "ok"
    /\ InsertCallsOf(delivery, 1) = 1
    /\ InsertCallsOf(delivery, 2) = 1

\* A send that was handed to fetch is either still in flight or has resolved.
SendAccountedFor(k) ==
    sendLog[k].fetched =>
        \/ Task(sendLog[k].delivery, sendLog[k].index, "fetch", <<>>, <<>>) \in tasks
        \/ \E r \in sendResults :
               r.delivery = sendLog[k].delivery /\ r.index = sendLog[k].index

\* C14: the sends of one request are independent.  A step in which a send
\* resolves, with whatever outcome, ends the task of that send and changes
\* nothing else: no other send or reply task is removed, and no recorded
\* send attempt changes; so every send that reached its fetch runs to its
\* own result.
C14_SendsIndependent ==
    /\ [](\A k \in 1..Len(sendLog) : SendAccountedFor(k))
    /\ [][ sendResults' # sendResults /\ sendLog' = sendLog
             => \E t \in tasks : t.stage = "fetch" /\ tasks' = tasks \ {t} ]_vars

C14_Witness ==
    \E r1, r2 \in sendResults :
        /\ r1.delivery = r2.delivery
        /\ r1.index # r2.index
        /\ r1.outcome = "networkError" /\ ~r1.success
        /\ r2.outcome = "ok" /\ r2.success

\* C15: a send is attempted only with a configuration that is present and
\* has enabled = true; with no configuration, or with enabled = false, the
\* sender is never called.
C15_SendOnlyWhenEnabled ==
    sendLog # <<>> => (~ObtainedConfig.isNull /\ ObtainedConfig.enabled)

\* The reply work of a request holding a customer's text ran to its end
\* with the configuration disabled, in the handler whose own test is only
\* that a configuration was obtained, and nothing was sent.
C15_Witness ==
    /\ deployment = "fanout"
    /\ ~responseConfig.isNull /\ ~responseConfig.enabled
    /\ pc = "idle" /\ delivery >= 1 /\ tasks = {}
    /\ \E i \in 1..Len(allEventsData) :
           PassesRules(allEventsData[i]) /\ inserts[i] = "ok"
    /\ sendLog = <<>>

\* C20: one call of sendWhatsAppMessage makes at most one POST to the vendor
\* API: no event has more POSTs than calls of the sender, a call that
\* returned before its fetch made none, and every result other than that of
\* a parsed 2xx answer without `error` is success = false.
C20_AtMostOnePost ==
    /\ \A k \in 1..Len(httpPosts) :
         HttpPostsOf(httpPosts[k].delivery, httpPosts[k].index)
             <= Cardinality(SendsFor(httpPosts[k].delivery, httpPosts[k].index))
    /\ \A k \in 1..Len(sendLog) :
         /\ Cardinality(SendsFor(sendLog[k].delivery, sendLog[k].index)) = 1
         /\ HttpPostsOf(sendLog[k].delivery, sendLog[k].index)
              = (IF sendLog[k].fetched THEN 1 ELSE 0)
    /\ \A r \in sendResults : r.success <=> r.outcome = "ok"

C20_Witness ==
    /\ \A o \in FetchOutcomes \ {"ok"} :
         \E r \in sendResults :
            r.outcome = o /\ ~r.success /\ HttpPostsOf(r.delivery, r.index) = 1
    /\ \A t \in tasks : t.stage # "fetch"

\* C29: in the handler that starts processAutoReply per event, reply work
\* exists and a send is attempted only for an event whose insert succeeded:
\* an event whose insert failed has neither.
C29_ReplyOnlyAfterStored ==
    deployment # "fanout" =>
        /\ \A k \in 1..Len(sendLog) :
             Record(sendLog[k].delivery, sendLog[k].index, sendLog[k].event.message_id)
                 \in stored
        /\ \A t \in tasks :
             \E r \in stored : r.delivery = t.delivery /\ r.index = t.index
        /\ \A i \in 1..Len(inserts) :
             inserts[i] = "failed"
             => /\ \A k \in 1..Len(sendLog) :
                     ~(sendLog[k].delivery = delivery /\ sendLog[k].index = i)
                /\ \A t \in tasks : ~(t.delivery = delivery /\ t.index = i)

\* A request with two customers' texts: the insert of one failed, the other
\* was stored and answered.
C29_Witness ==
    /\ deployment # "fanout"
    /\ \E i, j \in 1..Len(inserts) :
         /\ inserts[i] = "failed" /\ inserts[j] = "ok"
         /\ PassesRules(allEventsData[i]) /\ PassesRules(allEventsData[j])
         /\ \E k \in 1..Len(sendLog) :
              /\ sendLog[k].delivery = delivery /\ sendLog[k].index = j
              /\ sendLog[k].fetched

\* C30: every reply processAutomaticResponses posts to the vendor API is sent
\* from the business line that received the event it answers, also when the
\* request holds events of several business lines.
C30_ReplyFromReceivingLine ==
    deployment = "fanout" =>
        \A k \in 1..Len(sendLog) :
            sendLog[k].fetched => sendLog[k].phoneNumberId.val = sendLog[k].event.to_number

SpecAck ==
    /\ PostInit
    /\ [][Next]_vars
    /\ WF_vars(RawInsertSettles)
    /\ WF_vars(InsertSettles)
    /\ WF_vars(Respond)

\* C12: a request that was received is answered even when its reply work (the
\* configuration lookup, the sends) never completes.
C12_AckNeverWaits == (pc # "idle") ~> (pc = "idle")

\* The latest request was answered 200 while reply work of that request was
\* still waiting for the configuration.
C12_Witness ==
    /\ pc = "idle"
    /\ delivery >= 1
    /\ Len(responses) = delivery
    /\ responses[delivery] = Response(200, "OK")
    /\ \E t \in tasks : t.delivery = delivery /\ t.stage = "config"

-----------------------------------------------------------------------------
(* SpecCfg: the configuration cache, lib/response-config.ts in its three    *)
(* snapshots that read the response_config table through a cache:           *)
(* getResponseConfig called by concurrent callers, the clock, and           *)
(* invalidateConfigCache.                                                   *)

\* The number of calls of getResponseConfig of a behaviour, one per caller.
MaxCallers == 2
\* The clock runs from 0 to MaxTicks ticks of ten seconds.
MaxTicks == 4

CACHE_TTL == 30000
\* The default of the maxRetries parameter.
maxRetries == 2

Callers == 1..MaxCallers

\* Date.now(), in milliseconds.
DateNow == cfgNow * 10000

connectionErrors ==
    {"fetch failed", "SocketError", "UND_ERR_SOCKET", "ECONNRESET", "ETIMEDOUT", "ECONNREFUSED"}

\* isConnectionError(message), for messages that are one of the listed texts
\* or none of them.
isConnectionError(message) == message # "" /\ message \in connectionErrors

\* What one read of response_config gives: { data, error } or an exception.
DataResult(data) == [kind |-> "data", data |-> data, code |-> "", message |-> ""]
ErrorResult(code, message) ==
    [kind |-> "error", data |-> NullConfig, code |-> code, message |-> message]
Thrown(message) == [kind |-> "throw", data |-> NullConfig, code |-> "", message |-> message]

\* The timer of Promise.race wins: { data: null, error: { code: 'TIMEOUT' } }.
TimedOut ==
    [kind |-> "timeout", data |-> NullConfig, code |-> "TIMEOUT", message |-> "Query timeout"]

ReadOutcomes ==
    { DataResult(ResponseConfig(TRUE, "Hello")),
      DataResult(ResponseConfig(TRUE, "")),
      DataResult(NullConfig),
      ErrorResult("PGRST116", "no rows"),
      ErrorResult("08006", "fetch failed"),
      ErrorResult("42501", "permission denied"),
      Thrown("ECONNRESET"),
      Thrown("boom") }

NoCache == [present |-> FALSE, config |-> NullConfig, timestamp |-> 0]
CacheOf(config, timestamp) == [present |-> TRUE, config |-> config, timestamp |-> timestamp]

\* CACHE_TTL of the fallback snapshot.
CACHE_TTL_FALLBACK == 60000

\* configCache && (Date.now() - configCache.timestamp) < CACHE_TTL
CacheFresh ==
    /\ configCache.present
    /\ (DateNow - configCache.timestamp)
           < (IF cfgSnapshot = "fallback" THEN CACHE_TTL_FALLBACK ELSE CACHE_TTL)

\* The snapshots of getResponseConfig with a cache: "retry" reads up to
\* maxRetries + 1 times and returns null when it has no row; "fallback"
\* reads once and returns a built-in configuration when it has no row;
\* "timeout" is "retry" with every read raced against a timer of three
\* seconds, and without invalidateConfigCache.
Snapshots == {"retry", "fallback", "timeout"}

\* What a read can give in a snapshot.
ReadOutcomesOf(snapshot) ==
    ReadOutcomes \cup (IF snapshot = "timeout" THEN {TimedOut} ELSE {})

\* The connection errors the "timeout" snapshot lists inline: `caught` for
\* the list of its catch block.
isConnectionErrorInline(message, caught) ==
    message \in {"fetch failed", "SocketError", "UND_ERR_SOCKET", "ECONNRESET", "ETIMEDOUT"}
                  \cup (IF caught THEN {"Timeout"} ELSE {})

\* The text of FALLBACK_MESSAGE, its accent left out.
FALLBACK_MESSAGE == "Ola! Agradecemos o seu retorno. Como podemos ajudar?"
FallbackConfig == ResponseConfig(TRUE, FALLBACK_MESSAGE)

\* No read has settled yet.
NoRead == [kind |-> "none", data |-> NullConfig, code |-> "", message |-> ""]

\* One call of getResponseConfig: where it stands, the loop variable, the
\* time of the call, the value returned, the reads it has issued, the
\* duration of the setTimeout it waits for, and, when the value returned was
\* taken from the cache, the age of the cache entry at the time of the call
\* (-1 otherwise).
IdleCaller ==
    [ pc |-> "idle", attempt |-> 0, calledAt |-> 0, result |-> NullConfig,
      reads |-> 0, delay |-> 0, age |-> -1 ]

\* No read was in flight at an invalidation, and the cache entry was not
\* written from such a read.
NoneOvertaken == [callers |-> {}, cache |-> FALSE]

CfgInit ==
    /\ cfgNow = 0
    /\ configCache = NoCache
    /\ cfgCallers = [c \in Callers |-> IdleCaller]
    /\ cfgReads = 0
    /\ cfgInvalidations = 0
    /\ cfgCallsSince = 0
    /\ cfgLast = NoRead
    /\ cfgSnapshot \in Snapshots
    /\ cfgOvertaken = NoneOvertaken
    /\ NormIdle /\ GetIdle /\ PostIdle /\ SendIdle

\* getResponseConfig() is called: a fresh cache answers at once, otherwise
\* the first read is issued.
CallGetResponseConfig ==
    /\ \E c \in Callers :
         /\ cfgCallers[c].pc = "idle"
         /\ IF CacheFresh
            THEN /\ cfgCallers' = [cfgCallers EXCEPT ![c] =
                        [IdleCaller EXCEPT !.pc = "done", !.calledAt = DateNow,
                                           !.result = configCache.config,
                                           !.age = DateNow - configCache.timestamp]]
                 /\ UNCHANGED cfgReads
            ELSE /\ cfgCallers' = [cfgCallers EXCEPT ![c] =
                        [IdleCaller EXCEPT !.pc = "reading", !.calledAt = DateNow,
                                           !.reads = 1]]
                 /\ cfgReads' = cfgReads + 1
    /\ cfgCallsSince' = cfgCallsSince + 1
    /\ UNCHANGED <<cfgNow, configCache, cfgInvalidations, cfgLast, cfgSnapshot, cfgOvertaken,
                   normVars, getVars, postVars, sendVars>>

\* The caller returns `config`, caching it when `cached`.
Return(c, config, cached) ==
    /\ cfgCallers' = [cfgCallers EXCEPT ![c].pc = "done", ![c].result = config]
    /\ configCache' = IF cached THEN CacheOf(config, DateNow) ELSE configCache
    /\ cfgOvertaken' = [callers |-> cfgOvertaken.callers \ {c},
                        cache |-> IF cached THEN c \in cfgOvertaken.callers
                                  ELSE cfgOvertaken.cache]
    /\ UNCHANGED cfgReads

\* The read timed out: `if (configCache) return configCache.config`, whatever
\* the age of the entry, and null without an entry.
ReturnOnTimeout(c) ==
    IF configCache.present
    THEN /\ cfgCallers' =
              [cfgCallers EXCEPT ![c].pc = "done", ![c].result = configCache.config,
                                 ![c].age = IF cfgCallers[c].calledAt > configCache.timestamp
                                            THEN cfgCallers[c].calledAt - configCache.timestamp
                                            ELSE 0]
         /\ UNCHANGED <<configCache, cfgReads, cfgOvertaken>>
    ELSE Return(c, NullConfig, FALSE)

\* Mutant of RetryDelay: the same wait before every retry.
RetryDelayConstant(attempt) == 1000

\* const delay = (attempt + 1) * 1000
RetryDelay(attempt) == (attempt + 1) * 1000

\* The caller waits before the next attempt.
Backoff(c) ==
    /\ cfgCallers' = [cfgCallers EXCEPT ![c].pc = "backoff",
                                        ![c].delay = RetryDelay(cfgCallers[c].attempt),
                                        ![c].attempt = @ + 1]
    /\ cfgOvertaken' = [cfgOvertaken EXCEPT !.callers = @ \ {c}]
    /\ UNCHANGED <<configCache, cfgReads>>

\* The catch block falls through and the loop issues the next read at once.
NextAttempt(c) ==
    /\ cfgCallers' = [cfgCallers EXCEPT ![c].attempt = @ + 1, ![c].reads = @ + 1]
    /\ cfgReads' = cfgReads + 1
    /\ cfgOvertaken' = [cfgOvertaken EXCEPT !.callers = @ \ {c}]
    /\ UNCHANGED configCache

\* What the "timeout" snapshot does when a read settles with r.
ReadSettlesTimeoutSnapshot(c, r) ==
    LET attempt == cfgCallers[c].attempt IN
    IF r.kind = "timeout" THEN ReturnOnTimeout(c)
    ELSE IF r.kind = "error"
    THEN IF r.code = "PGRST116" THEN Return(c, NullConfig, TRUE)
         ELSE IF isConnectionErrorInline(r.message, FALSE) /\ attempt < maxRetries
             THEN Backoff(c)
         ELSE Return(c, NullConfig, FALSE)
    ELSE IF r.kind = "data"
    THEN IF r.data.isNull \/ r.data.default_message = "" THEN Return(c, NullConfig, FALSE)
         ELSE Return(c, r.data, TRUE)
    ELSE \* the catch block; after the last attempt null is cached
         IF isConnectionErrorInline(r.message, TRUE) /\ attempt < maxRetries THEN Backoff(c)
         ELSE IF attempt < maxRetries THEN NextAttempt(c)
         ELSE Return(c, NullConfig, TRUE)

\* A read settles and the caller runs on to its next await or its return.
ReadSettles ==
    /\ \E c \in Callers, r \in ReadOutcomesOf(cfgSnapshot) :
         LET attempt == cfgCallers[c].attempt IN
         /\ cfgCallers[c].pc = "reading"
         /\ cfgLast' = r
         /\ IF cfgSnapshot = "timeout" THEN ReadSettlesTimeoutSnapshot(c, r)
            ELSE IF cfgSnapshot = "fallback"
            THEN \* every outcome but a row with a message gives the fallback
                 IF r.kind = "data" /\ ~r.data.isNull /\ r.data.default_message # ""
                 THEN Return(c, r.data, TRUE)
                 ELSE Return(c, FallbackConfig, TRUE)
            ELSE IF r.kind = "error"
            THEN IF r.code = "PGRST116" THEN Return(c, NullConfig, TRUE)
                 ELSE IF isConnectionError(r.message) /\ attempt < maxRetries THEN Backoff(c)
                 ELSE Return(c, NullConfig, FALSE)
            ELSE IF r.kind = "data"
            THEN IF r.data.isNull THEN Return(c, NullConfig, TRUE)
                 ELSE IF r.data.default_message = "" THEN Return(c, NullConfig, FALSE)
                 ELSE Return(c, r.data, TRUE)
            ELSE \* the catch block
                 IF isConnectionError(r.message) /\ attempt < maxRetries THEN Backoff(c)
                 ELSE IF attempt < maxRetries
                     THEN NextAttempt(c)
                 ELSE Return(c, NullConfig, FALSE)
    /\ UNCHANGED <<cfgNow, cfgInvalidations, cfgCallsSince, cfgSnapshot, normVars, getVars, postVars, sendVars>>

\* The backoff timer fires and the next read is issued.
BackoffEnds ==
    /\ \E c \in Callers :
         /\ cfgCallers[c].pc = "backoff"
         /\ cfgCallers' = [cfgCallers EXCEPT ![c].pc = "reading", ![c].reads = @ + 1,
                                             ![c].delay = 0]
    /\ cfgReads' = cfgReads + 1
    /\ UNCHANGED <<cfgNow, configCache, cfgInvalidations, cfgCallsSince, cfgLast,
                   cfgSnapshot, cfgOvertaken, normVars, getVars, postVars, sendVars>>

\* configCache = null; the "timeout" snapshot does not export the function.
invalidateConfigCache ==
    /\ cfgSnapshot # "timeout"
    /\ cfgInvalidations = 0
    /\ configCache' = NoCache
    /\ cfgInvalidations' = cfgInvalidations + 1
    /\ cfgCallsSince' = 0
    /\ cfgOvertaken' = [callers |-> {c \in Callers : cfgCallers[c].pc = "reading"},
                        cache |-> FALSE]
    /\ UNCHANGED <<cfgNow, cfgCallers, cfgReads, cfgLast, cfgSnapshot, normVars, getVars, postVars, sendVars>>

\* Ten seconds pass.
Tick ==
    /\ cfgNow < MaxTicks
    /\ cfgNow' = cfgNow + 1
    /\ UNCHANGED <<configCache, cfgCallers, cfgReads, cfgInvalidations, cfgCallsSince, cfgLast,
                   cfgSnapshot, cfgOvertaken, normVars, getVars, postVars, sendVars>>

CfgNext ==
    \/ CallGetResponseConfig
    \/ ReadSettles
    \/ BackoffEnds
    \/ invalidateConfigCache
    \/ Tick

SpecCfg == CfgInit /\ [][CfgNext]_vars

-----------------------------------------------------------------------------
(* Claims about the configuration cache, checked under SpecCfg.            *)

\* Two calls were made less than the TTL apart, both have returned, and the
\* cache was not invalidated.
TwoCallsWithinTTL ==
    /\ \A c \in Callers : cfgCallers[c].pc = "done"
    /\ \A c1, c2 \in Callers :
           cfgCallers[c1].calledAt - cfgCallers[c2].calledAt < CACHE_TTL
    /\ cfgInvalidations = 0

\* C9: two calls of getResponseConfig() made within the TTL of each other
\* issue exactly one read of the database in total, whatever the first read
\* gave.
C9_OneReadWithinTTL == TwoCallsWithinTTL => cfgReads = 1

\* C16: after invalidateConfigCache() returned, the next call of
\* getResponseConfig() issues a read of the table, whatever was cached
\* before and however recently.
C16_FreshReadAfterInvalidation ==
    [][ (cfgInvalidations >= 1 /\ cfgCallsSince = 0 /\ cfgCallsSince' = 1)
          => cfgReads' = cfgReads + 1 ]_vars

\* The cache holds null, written less than the TTL ago.
NullCachedFresh == CacheFresh /\ configCache.config.isNull

\* C17: a read that reports PGRST116 makes its call return null and write
\* null to the cache with the time of the return; a call made while that
\* entry is younger than the TTL returns null without a read.
C17_NoRowCachedAsNull ==
    [][ /\ \A c \in Callers :
             ( /\ cfgCallers[c].pc = "reading"
               /\ cfgCallers'[c] # cfgCallers[c]
               /\ cfgLast'.code = "PGRST116" )
             => /\ cfgCallers'[c].pc = "done"
                /\ cfgCallers'[c].result = NullConfig
                /\ configCache' = CacheOf(NullConfig, DateNow)
        /\ \A c \in Callers :
             ( /\ cfgCallers[c].pc = "idle"
               /\ cfgCallers'[c].pc # "idle"
               /\ NullCachedFresh )
             => /\ cfgCallers'[c].pc = "done"
                /\ cfgCallers'[c].result = NullConfig
                /\ cfgReads' = cfgReads ]_vars

\* SpecCfg with its scheduling: every read of the table settles (the HTTP
\* client ends a request with a result or an error) and every setTimeout
\* fires.
SpecCfgFair ==
    /\ CfgInit
    /\ [][CfgNext]_vars
    /\ WF_vars(ReadSettles)
    /\ WF_vars(BackoffEnds)

\* The latest read failed with a connection-class error.
LastWasConnectionError ==
    cfgLast.kind \in {"error", "throw"} /\ isConnectionError(cfgLast.message)

C19_OnlyConnectionErrorsRetried ==
    [][ \A c \in Callers :
          ( /\ cfgCallers[c].pc = "reading"
            /\ cfgCallers'[c] # cfgCallers[c]
            /\ cfgCallers'[c].pc # "done" )
          => LastWasConnectionError' ]_vars

\* C26: calls of getResponseConfig() that overlap on an empty or expired
\* cache share one read: no read of the table is in flight for one call
\* while another call has its own read in flight.
C26_NoSimultaneousReads ==
    \A c1, c2 \in Callers :
        (cfgCallers[c1].pc = "reading" /\ cfgCallers[c2].pc = "reading") => c1 = c2

\* C27: a value getResponseConfig() returns from the cache was written to the
\* cache less than the TTL before the call, on whichever path the cache was
\* consulted, the path taken after a query timeout included.
C27_CachedValueYoungerThanTTL ==
    \A c \in Callers :
        (cfgCallers[c].pc = "done" /\ cfgCallers[c].age # -1)
        => cfgCallers[c].age
             < (IF cfgSnapshot = "fallback" THEN CACHE_TTL_FALLBACK ELSE CACHE_TTL)

\* C28: an invalidation is not undone by a read that was in flight when it
\* ran: no call that is answered from the cache finds there the value of
\* such a read.
C28_InvalidationNotUndone ==
    [][ \A c \in Callers :
          (cfgCallers[c].pc = "idle" /\ cfgCallers'[c].pc = "done")
          => ~cfgOvertaken.cache ]_vars

-----------------------------------------------------------------------------
(* SpecSend: the senders called directly, with process.env changing        *)
(* between calls: sendWhatsAppMessage in its snapshot that takes the       *)
(* sending line from the environment, sendWhatsAppTemplate of              *)
(* lib/template-sender.ts and sendTemplateMessage of lib/whatsapp-client.ts.*)

\* The number of calls of a sender in a behaviour.
MaxSendCalls == 2

SendFunctions == {"sendWhatsAppMessage", "sendWhatsAppTemplate", "sendTemplateMessage"}

\* process.env: whether each variable holds a non-empty value.
SendEnvironments == [WHATSAPP_ACCESS_TOKEN : BOOLEAN, WHATSAPP_PHONE_NUMBER_ID : BOOLEAN]

\* The parameters of a call: the recipient, the message or template name,
\* and (sendTemplateMessage only) the phoneNumberId of the request.
SendRequest(to, name, phoneNumberId) == [to |-> to, name |-> name, phoneNumberId |-> phoneNumberId]
SendRequests ==
    { SendRequest(Customer, "hello_world", BusinessLine),
      SendRequest("", "hello_world", BusinessLine),
      SendRequest(Customer, "", BusinessLine),
      SendRequest(Customer, "hello_world", "") }

\* The error texts of the senders, accents left out.
ErrToken == "WHATSAPP_ACCESS_TOKEN nao esta configurado"
ErrPhoneNumberId == "WHATSAPP_PHONE_NUMBER_ID nao esta configurado"
ErrParams == "Parametros invalidos para envio de mensagem"
ErrCredentials ==
    "Credenciais do WhatsApp nao configuradas (WHATSAPP_ACCESS_TOKEN ou WHATSAPP_PHONE_NUMBER_ID)"
ErrRequired == "Parametros obrigatorios: to, template_name"
ErrValidation == "VALIDATION_ERROR"
ErrTokenClient == "WHATSAPP_ACCESS_TOKEN nao esta configurado nas variaveis de ambiente"

\* Mutant of EnvRead: the environment is read once, when the module loads.
EnvReadAtStart(atStart, now) == atStart

\* `process.env.X` inside the function body: the value at the call.
EnvRead(atStart, now) == now

\* A sender up to its fetch: the failure it returns, or the POST it makes.
NoPost(error) == [fetched |-> FALSE, error |-> error]
Posts == [fetched |-> TRUE, error |-> ""]

BeforeFetch(fn, request) ==
    LET e == EnvRead(sEnvAtStart, sEnv) IN
    IF fn = "sendWhatsAppMessage"
    THEN IF ~e.WHATSAPP_ACCESS_TOKEN THEN NoPost(ErrToken)
         ELSE IF ~e.WHATSAPP_PHONE_NUMBER_ID THEN NoPost(ErrPhoneNumberId)
         ELSE IF request.to = "" \/ request.name = "" THEN NoPost(ErrParams)
         ELSE Posts
    ELSE IF fn = "sendWhatsAppTemplate"
    THEN IF ~e.WHATSAPP_ACCESS_TOKEN \/ ~e.WHATSAPP_PHONE_NUMBER_ID THEN NoPost(ErrCredentials)
         ELSE IF request.to = "" \/ request.name = "" THEN NoPost(ErrRequired)
         ELSE Posts
    ELSE \* sendTemplateMessage: validation, then getWhatsAppCredentials
         IF request.to = "" \/ request.phoneNumberId = "" \/ request.name = ""
         THEN NoPost(ErrValidation)
         ELSE IF ~e.WHATSAPP_ACCESS_TOKEN THEN NoPost(ErrTokenClient)
         ELSE Posts

\* A sender after its fetch settled.  sendTemplateMessage tests only
\* response.ok, and response.json() raises on a body it cannot parse.
SendSucceeds(fn, outcome) ==
    IF fn = "sendTemplateMessage" THEN outcome \in {"ok", "vendorError"}
    ELSE outcome = "ok"

SendCallOf(fn, request, at, posts, outcome, success, error) ==
    [ fn |-> fn, request |-> request, pc |-> at, posts |-> posts, outcome |-> outcome,
      success |-> success, error |-> error ]

SendInit ==
    /\ sEnv \in SendEnvironments
    /\ sEnvAtStart = sEnv
    /\ sCalls = <<>>
    /\ NormIdle /\ GetIdle /\ PostIdle /\ CfgIdle

\* The operator changes the environment of the running process.
SetEnv ==
    /\ \E e \in SendEnvironments : e # sEnv /\ sEnv' = e
    /\ UNCHANGED <<sEnvAtStart, sCalls, normVars, getVars, postVars, cfgVars>>

\* A sender is called and runs up to its fetch or its early return.
SendCall ==
    /\ Len(sCalls) < MaxSendCalls
    /\ \E fn \in SendFunctions, request \in SendRequests :
         LET b == BeforeFetch(fn, request) IN
         sCalls' = Append(sCalls,
                          IF b.fetched
                          THEN SendCallOf(fn, request, "fetching", 1, "", FALSE, "")
                          ELSE SendCallOf(fn, request, "done", 0, "notSent", FALSE, b.error))
    /\ UNCHANGED <<sEnv, sEnvAtStart, normVars, getVars, postVars, cfgVars>>

\* The fetch of a call settles and the call returns; no sender has a loop
\* around its fetch.
SendFetchSettles ==
    /\ \E k \in 1..Len(sCalls), outcome \in FetchOutcomes :
         /\ sCalls[k].pc = "fetching"
         /\ sCalls' = [sCalls EXCEPT ![k].pc = "done", ![k].outcome = outcome,
                                     ![k].success = SendSucceeds(sCalls[k].fn, outcome),
                                     ![k].error = IF SendSucceeds(sCalls[k].fn, outcome)
                                                  THEN "" ELSE outcome]
    /\ UNCHANGED <<sEnv, sEnvAtStart, normVars, getVars, postVars, cfgVars>>

SendNext ==
    \/ SetEnv
    \/ SendCall
    \/ SendFetchSettles

SpecSend == SendInit /\ [][SendNext]_vars

-----------------------------------------------------------------------------
(* Claims about the senders, checked under SpecSend.                       *)

TemplateSenders == {"sendWhatsAppTemplate", "sendTemplateMessage"}

\* C21: a template send that failed on a transient connection error was
\* tried again before it gave up, and one the vendor rejected was not: a
\* finished call whose fetch was rejected by the network made more than one
\* POST, and one answered with a non-2xx status or an error object made
\* exactly one.
C21_TemplateRetriesTransientOnly ==
    \A k \in 1..Len(sCalls) :
        (sCalls[k].fn \in TemplateSenders /\ sCalls[k].pc = "done")
        => /\ sCalls[k].outcome = "networkError" => sCalls[k].posts > 1
           /\ sCalls[k].outcome \in {"httpError", "vendorError"} => sCalls[k].posts = 1

\* The senders that take both the credential and the sending line from the
\* environment, and the error texts that name each variable.
EnvSenders == {"sendWhatsAppMessage", "sendWhatsAppTemplate"}
NamesToken == {ErrToken, ErrCredentials}
NamesPhoneNumberId == {ErrPhoneNumberId, ErrCredentials}

\* C22: a call made while WHATSAPP_ACCESS_TOKEN or WHATSAPP_PHONE_NUMBER_ID
\* is missing returns a failure whose error names a missing variable and
\* makes no POST; the test is on the environment as it is at the call, so a
\* call made once both are set, with a recipient and a text, makes its POST.
C22_MissingConfigurationFails ==
    [][ Len(sCalls') = Len(sCalls) + 1 =>
          LET c == sCalls'[Len(sCalls')] IN
          c.fn \in EnvSenders =>
            /\ (~sEnv.WHATSAPP_ACCESS_TOKEN \/ ~sEnv.WHATSAPP_PHONE_NUMBER_ID)
                 => /\ c.pc = "done" /\ ~c.success /\ c.posts = 0
                    /\ \/ ~sEnv.WHATSAPP_ACCESS_TOKEN /\ c.error \in NamesToken
                       \/ ~sEnv.WHATSAPP_PHONE_NUMBER_ID /\ c.error \in NamesPhoneNumberId
            /\ ( /\ sEnv.WHATSAPP_ACCESS_TOKEN /\ sEnv.WHATSAPP_PHONE_NUMBER_ID
                 /\ c.request.to # "" /\ c.request.name # "" )
                 => c.pc = "fetching" /\ c.posts = 1 ]_vars

\* The process started with both variables set and its first call made its
\* POST; the token was then removed, and the second call failed naming it,
\* without a POST.
C22_Witness ==
    /\ sEnvAtStart.WHATSAPP_ACCESS_TOKEN /\ sEnvAtStart.WHATSAPP_PHONE_NUMBER_ID
    /\ ~sEnv.WHATSAPP_ACCESS_TOKEN
    /\ Len(sCalls) = 2
    /\ sCalls[1].fn = "sendWhatsAppMessage" /\ sCalls[1].posts = 1
    /\ sCalls[2].fn = "sendWhatsAppMessage" /\ sCalls[2].posts = 0
    /\ sCalls[2].pc = "done" /\ ~sCalls[2].success /\ sCalls[2].error = ErrToken

=============================================================================
